---- MODULE Spec2Model ----
(***************************************************************************)
(* env-auditor (src/scan.js): one invocation of main() as a state machine. *)
(*                                                                         *)
(* Strings are sequences of one-character strings, so that startsWith,     *)
(* includes, indexOf, trim, split and sort are computed as the code        *)
(* computes them.  The text of a source file is a sequence of tokens: a    *)
(* newline, a match of reDot, a match of reBracket, a "use client"         *)
(* directive (double or single quoted), or other text; a match's index is  *)
(* its position in that sequence.                                          *)
(***************************************************************************)
EXTENDS Integers, Sequences, FiniteSets

VARIABLES
    input,        \* process.argv, the file system and the archive, as main() finds them
    pc,           \* position of main()
    tmpExists,    \* the directory made by fs.mkdtempSync exists
    tmpCreated,   \* fs.mkdtempSync was called in this invocation
    files,        \* result of fast-glob (line 132)
    idx,          \* position of the loop of line 146 in files
    used,         \* the Map of line 144: sequence of [key, locs] in insertion order
    providedKeys, \* the Set of line 186, in insertion order
    missing,      \* line 193
    unused,       \* line 194
    risky,        \* line 204
    written,      \* the artifacts written so far
    example,      \* contents of .env.example.generated
    thrown,       \* an exception is propagating out of main()
    exitCode      \* "none" while running, else the process's exit status

vars == <<input, pc, tmpExists, tmpCreated, files, idx, used, providedKeys,
          missing, unused, risky, written, example, thrown, exitCode>>

(***************************************************************************)
(* Bounds of the model.                                                    *)
(***************************************************************************)
MaxFiles == 2
MaxEnvLines == 2

(***************************************************************************)
(* String primitives of JavaScript used by the code.                       *)
(***************************************************************************)
startsWith(s, p) ==
    /\ Len(p) <= Len(s)
    /\ SubSeq(s, 1, Len(p)) = p

includes(s, p) ==
    \E i \in 0..(Len(s) - Len(p)) : SubSeq(s, i + 1, i + Len(p)) = p

\* String.prototype.indexOf for a one-character needle; 0-based, -1 when absent.
indexOf(s, c) ==
    IF \E i \in 1..Len(s) : s[i] = c
    THEN (CHOOSE i \in 1..Len(s) : s[i] = c /\ \A j \in 1..(i - 1) : s[j] # c) - 1
    ELSE -1

\* String.prototype.slice(from, to) with 0-based, in-range arguments.
slice(s, from, to) == SubSeq(s, from + 1, to)

IsWhiteSpace(c) == c \in {" ", "\t", "\r", "\n"}

RECURSIVE trimStart(_)
trimStart(s) ==
    IF s # <<>> /\ IsWhiteSpace(Head(s)) THEN trimStart(Tail(s)) ELSE s

RECURSIVE trimEnd(_)
trimEnd(s) ==
    IF s # <<>> /\ IsWhiteSpace(s[Len(s)])
    THEN trimEnd(SubSeq(s, 1, Len(s) - 1))
    ELSE s

trim(s) == trimEnd(trimStart(s))

\* String.prototype.split(sep) for a one-element separator: always at least
\* one piece, an empty one between adjacent separators.
RECURSIVE split(_, _)
split(s, sep) ==
    LET i == indexOf(s, sep)
    IN  IF i = -1
        THEN <<s>>
        ELSE <<slice(s, 0, i)>> \o split(SubSeq(s, i + 2, Len(s)), sep)

replaceAll(s, a, b) == [i \in DOMAIN s |-> IF s[i] = a THEN b ELSE s[i]]

\* The characters of an extracted key ([A-Z0-9_], lines 166-167) by
\* increasing UTF-16 code unit.
CodeOrder ==
    <<"0", "1", "2", "3", "4", "5", "6", "7", "8", "9", "A", "B", "C",
      "D", "E", "F", "G", "H", "I", "J", "K", "L", "M", "N", "O", "P",
      "Q", "R", "S", "T", "U", "V", "W", "X", "Y", "Z", "_">>

Code(c) == CHOOSE i \in DOMAIN CodeOrder : CodeOrder[i] = c

\* The default comparison of Array.prototype.sort: by code units, a proper
\* prefix first.
RECURSIVE strLess(_, _)
strLess(a, b) ==
    IF a = <<>> THEN b # <<>>
    ELSE IF b = <<>> THEN FALSE
    ELSE IF Head(a) # Head(b) THEN Code(Head(a)) < Code(Head(b))
    ELSE strLess(Tail(a), Tail(b))

Range(s) == {s[i] : i \in DOMAIN s}

RECURSIVE sortSet(_)
sortSet(S) ==
    IF S = {} THEN <<>>
    ELSE LET m == CHOOSE x \in S : \A y \in S \ {x} : strLess(x, y)
         IN  <<m>> \o sortSet(S \ {m})

\* Array.prototype.sort() of an array of distinct strings.
sort(a) == sortSet(Range(a))

RECURSIVE join(_, _)
join(a, sep) ==
    IF a = <<>> THEN <<>>
    ELSE IF Len(a) = 1 THEN a[1]
    ELSE a[1] \o <<sep>> \o join(Tail(a), sep)

\* Set.prototype.add on a Set kept in insertion order.
setAdd(s, x) == IF x \in Range(s) THEN s ELSE Append(s, x)

Lower == <<"a", "b", "c", "d", "e", "f", "g", "h", "i", "j", "k", "l", "m",
           "n", "o", "p", "q", "r", "s", "t", "u", "v", "w", "x", "y", "z">>
Upper == <<"A", "B", "C", "D", "E", "F", "G", "H", "I", "J", "K", "L", "M",
           "N", "O", "P", "Q", "R", "S", "T", "U", "V", "W", "X", "Y", "Z">>

toUpper(s) ==
    [i \in DOMAIN s |->
        IF \E j \in DOMAIN Lower : Lower[j] = s[i]
        THEN Upper[CHOOSE j \in DOMAIN Lower : Lower[j] = s[i]]
        ELSE s[i]]

(***************************************************************************)
(* Source text as the two regular expressions of lines 166-167 see it.     *)
(***************************************************************************)
NL == [t |-> "nl", key |-> <<>>]
UseClientD == [t |-> "useClientDouble", key |-> <<>>]
UseClientS == [t |-> "useClientSingle", key |-> <<>>]
Other == [t |-> "other", key |-> <<>>]
DotRef(k) == [t |-> "dot", key |-> k]
BracketRef(k) == [t |-> "bracket", key |-> k]

getLineNumber(text, index) == Len(split(slice(text, 0, index), NL))

RECURSIVE matchesFrom(_, _, _)
matchesFrom(text, kind, p) ==
    IF p > Len(text) THEN <<>>
    ELSE IF text[p].t = kind
    THEN <<[index |-> p - 1, key |-> text[p].key]>> \o matchesFrom(text, kind, p + 1)
    ELSE matchesFrom(text, kind, p + 1)

\* text.matchAll(re): the matches of one pattern, by increasing index.
matchAll(text, kind) == matchesFrom(text, kind, 1)

(***************************************************************************)
(* Pure functions of scan.js.                                              *)
(***************************************************************************)
RECURSIVE parseLines(_, _)
parseLines(lines, keys) ==
    IF lines = <<>> THEN keys
    ELSE LET line == trim(Head(lines))
             eq == indexOf(line, "=")
             key == trim(slice(line, 0, eq))
         IN  IF line = <<>> \/ startsWith(line, <<"#">>) THEN parseLines(Tail(lines), keys)
             ELSE IF eq = -1 THEN parseLines(Tail(lines), keys)
             ELSE IF key # <<>> THEN parseLines(Tail(lines), setAdd(keys, key))
             ELSE parseLines(Tail(lines), keys)

parseEnvKeys(envText) == parseLines(split(envText, "\n"), <<>>)

SensitiveWords ==
    { <<"K", "E", "Y">>, <<"T", "O", "K", "E", "N">>,
      <<"S", "E", "C", "R", "E", "T">>, <<"P", "R", "I", "V", "A", "T", "E">>,
      <<"P", "A", "S", "S", "W", "O", "R", "D">>, <<"P", "A", "S", "S">>,
      <<"A", "U", "T", "H">> }

looksSensitiveName(key) == \E w \in SensitiveWords : includes(toUpper(key), w)

S_app == <<"a", "p", "p", "/">>
S_pages == <<"p", "a", "g", "e", "s", "/">>
S_srcApp == <<"s", "r", "c", "/", "a", "p", "p", "/">>
S_srcPages == <<"s", "r", "c", "/", "p", "a", "g", "e", "s", "/">>
S_appApi == <<"a", "p", "p", "/", "a", "p", "i", "/">>
S_srcAppApi == <<"s", "r", "c", "/", "a", "p", "p", "/", "a", "p", "i", "/">>
S_routeTs == <<"/", "r", "o", "u", "t", "e", ".", "t", "s">>
S_routeJs == <<"/", "r", "o", "u", "t", "e", ".", "j", "s">>
S_nextPublic == <<"N", "E", "X", "T", "_", "P", "U", "B", "L", "I", "C", "_">>

isLikelyClientExposedPathWithApi(relFile) ==
    LET f == replaceAll(relFile, "\\", "/")
    IN  \/ startsWith(f, S_app)
        \/ startsWith(f, S_pages)
        \/ startsWith(f, S_srcApp)
        \/ startsWith(f, S_srcPages)

isLikelyClientExposedPath(relFile) ==
    LET f == replaceAll(relFile, "\\", "/")
        isAppOrPages ==
            \/ startsWith(f, S_app)
            \/ startsWith(f, S_pages)
            \/ startsWith(f, S_srcApp)
            \/ startsWith(f, S_srcPages)
        isApi ==
            \/ startsWith(f, S_appApi)
            \/ startsWith(f, S_srcAppApi)
            \/ includes(f, S_routeTs)
            \/ includes(f, S_routeJs)
    IN  isAppOrPages /\ ~isApi

\* The flags of lines 156-163.
isClientOf(text) == includes(text, <<UseClientD>>) \/ includes(text, <<UseClientS>>)

isServerFileOf(relFile) ==
    \/ startsWith(relFile, S_appApi)
    \/ startsWith(relFile, S_srcAppApi)
    \/ includes(relFile, S_routeTs)
    \/ includes(relFile, S_routeJs)

(***************************************************************************)
(* The Map `used` (line 144), in insertion order.                          *)
(***************************************************************************)
mapHas(m, key) == \E i \in DOMAIN m : m[i].key = key
mapKeys(m) == [i \in DOMAIN m |-> m[i].key]

\* Lines 173-174 and 181-182.
recordOccurrence(m, key, occ) ==
    IF mapHas(m, key)
    THEN [i \in DOMAIN m |->
            IF m[i].key = key THEN [m[i] EXCEPT !.locs = Append(@, occ)] ELSE m[i]]
    ELSE Append(m, [key |-> key, locs |-> <<occ>>])

\* One of the loops of lines 169-175 and 177-183 over the matches `ms`.
RECURSIVE recordMatches(_, _, _, _)
recordMatches(m, ms, relFile, text) ==
    IF ms = <<>> THEN m
    ELSE recordMatches(
            recordOccurrence(m, Head(ms).key,
                [file |-> relFile,
                 line |-> getLineNumber(text, Head(ms).index),
                 isClient |-> isClientOf(text),
                 isServerFile |-> isServerFileOf(relFile)]),
            Tail(ms), relFile, text)

scanTextBracketFirst(m, relFile, text) ==
    recordMatches(recordMatches(m, matchAll(text, "bracket"), relFile, text),
                  matchAll(text, "dot"), relFile, text)

\* Lines 156-183: the body of the loop for a file that was read.
scanText(m, relFile, text) ==
    recordMatches(recordMatches(m, matchAll(text, "dot"), relFile, text),
                  matchAll(text, "bracket"), relFile, text)

scanFileAbortOnFailure(m, file) ==
    IF file.readable THEN scanText(m, file.path, file.text) ELSE <<>>

\* Lines 146-184: one iteration; a failed read leaves the Map as it is.
scanFile(m, file) ==
    IF file.readable THEN scanText(m, file.path, file.text) ELSE m

(***************************************************************************)
(* Reconciliation (lines 192-201).                                         *)
(***************************************************************************)
RECURSIVE filterNotIn(_, _)
filterNotIn(a, s) ==
    IF a = <<>> THEN <<>>
    ELSE IF Head(a) \in Range(s) THEN filterNotIn(Tail(a), s)
    ELSE <<Head(a)>> \o filterNotIn(Tail(a), s)

computeMissingUnguarded(usedKeys, provided) == filterNotIn(usedKeys, provided)

\* Lines 196-197.
computeMissing(usedKeys, provided) ==
    IF Len(provided) > 0 THEN filterNotIn(usedKeys, provided) ELSE <<>>

\* Lines 196 and 198.
computeUnused(usedKeys, provided) ==
    IF Len(provided) > 0 THEN filterNotIn(provided, usedKeys) ELSE <<>>

(***************************************************************************)
(* Risk checks (lines 204-269).                                            *)
(***************************************************************************)
TypeExposed == "Secret-like env used in potentially client-exposed code (heuristic)"
TypePublicSensitive == "Public env name looks sensitive"
TypeClient == "Possible secret used in client component"
TypeServerOnly == "NEXT_PUBLIC_ used only in server code"

\* Array.prototype.find, given the indices `hits` of the elements that satisfy
\* the predicate: the first of them, as a sequence of length 0 (undefined) or 1.
find(a, hits) ==
    IF hits = {} THEN <<>>
    ELSE <<a[CHOOSE i \in hits : \A j \in hits : i <= j]>>

finding(type, key, ex) ==
    [type |-> type, key |-> key, file |-> ex.file, line |-> ex.line]

riskExposedUnsuppressed(key, locations, missingSet) ==
    LET ex == find(locations, {i \in DOMAIN locations :
                                  isLikelyClientExposedPath(locations[i].file)})
    IN  IF looksSensitiveName(key) /\ ex # <<>>
        THEN <<finding(TypeExposed, key, ex[1])>>
        ELSE <<>>

\* Lines 207-218.
riskExposed(key, locations, missingSet) ==
    LET ex == find(locations, {i \in DOMAIN locations :
                                  isLikelyClientExposedPath(locations[i].file)})
    IN  IF key \notin missingSet /\ looksSensitiveName(key) /\ ex # <<>>
        THEN <<finding(TypeExposed, key, ex[1])>>
        ELSE <<>>

\* Lines 221-234.
riskPublicSensitive(key, locations, missingSet) ==
    IF key \notin missingSet /\ startsWith(key, S_nextPublic) /\ looksSensitiveName(key)
    THEN <<finding(TypePublicSensitive, key, locations[1])>>
    ELSE <<>>

riskClientCitesFirst(key, locations, missingSet) ==
    LET usedInClient == \E i \in DOMAIN locations : locations[i].isClient
    IN  IF key \notin missingSet /\ usedInClient /\ ~startsWith(key, S_nextPublic)
        THEN <<finding(TypeClient, key, locations[1])>>
        ELSE <<>>

\* Lines 237-251.
riskClient(key, locations, missingSet) ==
    LET usedInClient == \E i \in DOMAIN locations : locations[i].isClient
        found == find(locations, {i \in DOMAIN locations : locations[i].isClient})
        ex == IF found # <<>> THEN found[1] ELSE locations[1]
    IN  IF key \notin missingSet /\ usedInClient /\ ~startsWith(key, S_nextPublic)
        THEN <<finding(TypeClient, key, ex)>>
        ELSE <<>>

riskServerOnlySome(key, locations, missingSet) ==
    LET usedInServer == \E i \in DOMAIN locations : locations[i].isServerFile
    IN  IF key \notin missingSet /\ startsWith(key, S_nextPublic) /\ usedInServer
        THEN <<finding(TypeServerOnly, key, locations[1])>>
        ELSE <<>>

\* Lines 254-268.
riskServerOnly(key, locations, missingSet) ==
    LET usedOnlyInServer == \A i \in DOMAIN locations : locations[i].isServerFile
    IN  IF key \notin missingSet /\ startsWith(key, S_nextPublic) /\ usedOnlyInServer
        THEN <<finding(TypeServerOnly, key, locations[1])>>
        ELSE <<>>

\* Lines 205-269: the loop over used.entries().
RECURSIVE classify(_, _)
classify(m, missingSet) ==
    IF m = <<>> THEN <<>>
    ELSE LET key == Head(m).key
             locations == Head(m).locs
         IN  riskExposed(key, locations, missingSet)
             \o riskPublicSensitive(key, locations, missingSet)
             \o riskClient(key, locations, missingSet)
             \o riskServerOnly(key, locations, missingSet)
             \o classify(Tail(m), missingSet)

(***************************************************************************)
(* Report artifacts (lines 271-376).                                       *)
(***************************************************************************)
exampleTextOneLine(usedKeys) ==
    join([i \in DOMAIN sort(usedKeys) |-> sort(usedKeys)[i] \o <<"=">>], " ") \o <<"\n">>

\* Lines 319-320: the contents of .env.example.generated.
exampleText(usedKeys) ==
    join([i \in DOMAIN sort(usedKeys) |-> sort(usedKeys)[i] \o <<"=">>], "\n") \o <<"\n">>

Artifacts == <<"report.json", ".env.example.generated", "report.html">>

(***************************************************************************)
(* Inputs: keys, relative paths, file texts and env-list lines.            *)
(***************************************************************************)
\* 'API_KEY'
K_API_KEY ==
    <<"A", "P", "I", "_", "K", "E", "Y">>
\* 'DB_URL'
K_DB_URL ==
    <<"D", "B", "_", "U", "R", "L">>
\* 'NEXT_PUBLIC_API_BASE'
K_PUB_BASE ==
    <<"N", "E", "X", "T", "_", "P", "U", "B", "L", "I", "C", "_", "A", "P", "I", "_", "B", "A", "S", "E">>
\* 'NEXT_PUBLIC_TOKEN'
K_PUB_TOKEN ==
    <<"N", "E", "X", "T", "_", "P", "U", "B", "L", "I", "C", "_", "T", "O", "K", "E", "N">>
\* 'app/dashboard/page.tsx'
P_page ==
    <<"a", "p", "p", "/", "d", "a", "s", "h", "b", "o", "a", "r", "d", "/", "p", "a", "g", "e", ".", "t", "s", "x">>
\* 'src/app/api/users/route.ts'
P_apiRoute ==
    <<"s", "r", "c", "/", "a", "p", "p", "/", "a", "p", "i", "/", "u", "s", "e", "r", "s", "/", "r", "o", "u", "t", "e", ".", "t", "s">>
\* 'pages/api/hello.js'
P_pagesApi ==
    <<"p", "a", "g", "e", "s", "/", "a", "p", "i", "/", "h", "e", "l", "l", "o", ".", "j", "s">>
\* 'lib/db.js'
P_lib ==
    <<"l", "i", "b", "/", "d", "b", ".", "j", "s">>
\* 'app/users/route.js'
P_route ==
    <<"a", "p", "p", "/", "u", "s", "e", "r", "s", "/", "r", "o", "u", "t", "e", ".", "j", "s">>
\* 'app\\api\\x.js'
P_backslash ==
    <<"a", "p", "p", "\\", "a", "p", "i", "\\", "x", ".", "j", "s">>
\* 'src/pages/index.tsx'
P_srcPages ==
    <<"s", "r", "c", "/", "p", "a", "g", "e", "s", "/", "i", "n", "d", "e", "x", ".", "t", "s", "x">>
\* 'API_KEY=1'
L_apiKey ==
    <<"A", "P", "I", "_", "K", "E", "Y", "=", "1">>
\* ' DB_URL = x\r'
L_dbUrl ==
    <<" ", "D", "B", "_", "U", "R", "L", " ", "=", " ", "x", "\r">>
\* '  #API_KEY=1'
L_comment ==
    <<" ", " ", "#", "A", "P", "I", "_", "K", "E", "Y", "=", "1">>
\* 'DB_URL'
L_noEq ==
    <<"D", "B", "_", "U", "R", "L">>
\* '=v'
L_noKey ==
    <<"=", "v">>
\* 'NEXT_PUBLIC_API_BASE='
L_pubBase ==
    <<"N", "E", "X", "T", "_", "P", "U", "B", "L", "I", "C", "_", "A", "P", "I", "_", "B", "A", "S", "E", "=">>
\* 'DB_URL=a=b'
L_twoEq ==
    <<"D", "B", "_", "U", "R", "L", "=", "a", "=", "b">>
L_blank == <<>>

\* Texts for the risk checks.
T_secret == <<DotRef(K_API_KEY), NL, BracketRef(K_DB_URL)>>
T_clientSecret == <<UseClientD, NL, DotRef(K_API_KEY)>>
T_pubBase == <<BracketRef(K_PUB_BASE), NL, DotRef(K_PUB_TOKEN)>>
T_clientMixed == <<UseClientS, NL, NL, DotRef(K_PUB_TOKEN), Other, DotRef(K_DB_URL)>>

\* Texts for the order of discovery.
T_bothOnLine == <<DotRef(K_API_KEY), BracketRef(K_API_KEY)>>
T_bracketAbove ==
    <<BracketRef(K_API_KEY), NL, DotRef(K_API_KEY), NL, BracketRef(K_DB_URL)>>
T_lower == <<Other, NL, NL, DotRef(K_DB_URL), Other, DotRef(K_API_KEY)>>
T_none == <<Other, NL>>
T_clientBoth == <<UseClientD, NL, BracketRef(K_DB_URL), DotRef(K_DB_URL)>>

File(path, text, readable) == [path |-> path, text |-> text, readable |-> readable]

Input(target, zipOk, fs, envArg, envText, envReadable, writeFail) ==
    [target |-> target, zipOk |-> zipOk, files |-> fs, envArg |-> envArg,
     envText |-> envText, envReadable |-> envReadable, writeFail |-> writeFail,
     fromTemplate |-> FALSE]

\* Sequences over S of length lo..hi.
SeqsOf(S, lo, hi) == UNION {[1..n -> S] : n \in lo..hi}

DistinctPaths(fs) == \A i, j \in DOMAIN fs : i # j => fs[i].path # fs[j].path

EnvLines ==
    {L_apiKey, L_dbUrl, L_comment, L_blank, L_noEq, L_noKey, L_pubBase, L_twoEq}

EnvTexts == {join(ls, "\n") : ls \in SeqsOf(EnvLines, 0, MaxEnvLines)}

\* Every way into and out of main(): each kind of target, a failing
\* archive, an unreadable env file, a failure of each write.
TargetFiles == {File(P_page, T_clientSecret, TRUE), File(P_lib, T_pubBase, FALSE)}

TargetInputs ==
    { Input(t, z, fs, e, L_apiKey, r, w) :
        t \in {"none", "absent", "dir", "zip"}, z \in BOOLEAN,
        fs \in {f \in SeqsOf(TargetFiles, 0, MaxFiles) : DistinctPaths(f)},
        e \in BOOLEAN, r \in BOOLEAN, w \in 0..3 }

BaseInputs ==
    { Input(t, z, <<File(P_page, T_clientSecret, TRUE)>>, e, L_apiKey, r, w) :
        t \in {"none", "absent", "dir", "zip"}, z \in BOOLEAN,
        e \in BOOLEAN, r \in BOOLEAN, w \in 0..3 }

RiskPaths == {P_page, P_apiRoute, P_pagesApi, P_lib, P_route, P_backslash, P_srcPages}
RiskTexts == {T_secret, T_clientSecret, T_pubBase, T_clientMixed}
RiskFiles == {File(p, t, TRUE) : p \in RiskPaths, t \in RiskTexts}

RiskInputs ==
    { Input("dir", TRUE, fs, e # <<>>, e, TRUE, 0) :
        fs \in {f \in SeqsOf(RiskFiles, 1, MaxFiles) : DistinctPaths(f)},
        e \in {<<>>, L_apiKey, L_twoEq} }

ScanPaths == <<P_lib, P_page, P_apiRoute, P_srcPages>>
ScanTexts == {T_bothOnLine, T_bracketAbove, T_lower, T_none, T_clientBoth}

ScanInputs ==
    { Input("dir", TRUE, [i \in DOMAIN fs |-> File(ScanPaths[i], fs[i][1], fs[i][2])],
            FALSE, <<>>, TRUE, 0) :
        fs \in SeqsOf(ScanTexts \X BOOLEAN, 1, MaxFiles) }

EnvFileLists ==
    { <<>>,
      <<File(P_page, T_secret, TRUE)>>,
      <<File(P_lib, T_clientMixed, TRUE), File(P_apiRoute, T_pubBase, TRUE)>> }

EnvInputs ==
    { Input("dir", TRUE, fs, TRUE, e, TRUE, 0) : fs \in EnvFileLists, e \in EnvTexts }

(***************************************************************************)
(* main() (lines 118-380) and the handler of line 382.                     *)
(***************************************************************************)
InitState ==
    /\ pc = "start"
    /\ tmpExists = FALSE
    /\ tmpCreated = FALSE
    /\ files = <<>>
    /\ idx = 1
    /\ used = <<>>
    /\ providedKeys = <<>>
    /\ missing = <<>>
    /\ unused = <<>>
    /\ risky = <<>>
    /\ written = {}
    /\ example = <<>>
    /\ thrown = FALSE
    /\ exitCode = -1

Init == input \in TargetInputs /\ InitState
InitRisk == input \in BaseInputs \cup RiskInputs /\ InitState
InitScan == input \in BaseInputs \cup ScanInputs /\ InitState
InitEnv == input \in BaseInputs \cup EnvInputs /\ InitState

\* Lines 122-127: no target argument.
Usage ==
    /\ pc = "start"
    /\ input.target = "none"
    /\ pc' = "exited"
    /\ exitCode' = 1
    /\ UNCHANGED <<input, tmpExists, tmpCreated, files, idx, used, providedKeys,
                   missing, unused, risky, written, example, thrown>>

\* Lines 88-91: process.exit(1) inside prepareTarget.
TargetNotFound ==
    /\ pc = "start"
    /\ input.target = "absent"
    /\ pc' = "exited"
    /\ exitCode' = 1
    /\ UNCHANGED <<input, tmpExists, tmpCreated, files, idx, used, providedKeys,
                   missing, unused, risky, written, example, thrown>>

\* Lines 111-115: a directory; cleanup is a no-op.
prepareTargetDir ==
    /\ pc = "start"
    /\ input.target = "dir"
    /\ pc' = "glob"
    /\ UNCHANGED <<input, tmpExists, tmpCreated, files, idx, used, providedKeys,
                   missing, unused, risky, written, example, thrown, exitCode>>

\* Lines 93-109: an archive that extracts.
prepareTargetZip ==
    /\ pc = "start"
    /\ input.target = "zip"
    /\ input.zipOk
    /\ tmpCreated' = TRUE
    /\ tmpExists' = TRUE
    /\ pc' = "glob"
    /\ UNCHANGED <<input, files, idx, used, providedKeys, missing, unused, risky,
                   written, example, thrown, exitCode>>

\* Lines 94-96 and 382-385: new AdmZip or extractAllTo throws after
\* mkdtempSync.  The call of line 129 is outside the try of line 131, so the
\* exception leaves main() without cleanup() and reaches the catch handler.
prepareTargetZipThrows ==
    /\ pc = "start"
    /\ input.target = "zip"
    /\ ~input.zipOk
    /\ tmpCreated' = TRUE
    /\ tmpExists' = TRUE
    /\ thrown' = TRUE
    /\ pc' = "exited"
    /\ exitCode' = 1
    /\ UNCHANGED <<input, files, idx, used, providedKeys, missing, unused, risky,
                   written, example>>

\* Lines 132-144.
Glob ==
    /\ pc = "glob"
    /\ files' = input.files
    /\ used' = <<>>
    /\ idx' = 1
    /\ pc' = "scan"
    /\ UNCHANGED <<input, tmpExists, tmpCreated, providedKeys, missing, unused,
                   risky, written, example, thrown, exitCode>>

\* Lines 146-184: one iteration of the loop.
ScanFile ==
    /\ pc = "scan"
    /\ idx <= Len(files)
    /\ used' = scanFile(used, files[idx])
    /\ idx' = idx + 1
    /\ UNCHANGED <<input, pc, tmpExists, tmpCreated, files, providedKeys, missing,
                   unused, risky, written, example, thrown, exitCode>>

\* Lines 186-190, no second argument.
NoEnvFile ==
    /\ pc = "scan"
    /\ idx > Len(files)
    /\ ~input.envArg
    /\ providedKeys' = <<>>
    /\ pc' = "reconcile"
    /\ UNCHANGED <<input, tmpExists, tmpCreated, files, idx, used, missing, unused,
                   risky, written, example, thrown, exitCode>>

\* Lines 186-190.
ReadEnvFile ==
    /\ pc = "scan"
    /\ idx > Len(files)
    /\ input.envArg
    /\ input.envReadable
    /\ providedKeys' = parseEnvKeys(input.envText)
    /\ pc' = "reconcile"
    /\ UNCHANGED <<input, tmpExists, tmpCreated, files, idx, used, missing, unused,
                   risky, written, example, thrown, exitCode>>

\* Line 188: readFileSync throws; control passes to the finally of line 377.
ReadEnvFileThrows ==
    /\ pc = "scan"
    /\ idx > Len(files)
    /\ input.envArg
    /\ ~input.envReadable
    /\ thrown' = TRUE
    /\ pc' = "finally"
    /\ UNCHANGED <<input, tmpExists, tmpCreated, files, idx, used, providedKeys,
                   missing, unused, risky, written, example, exitCode>>

\* Lines 192-201.
Reconcile ==
    /\ pc = "reconcile"
    /\ missing' = computeMissing(mapKeys(used), providedKeys)
    /\ unused' = computeUnused(mapKeys(used), providedKeys)
    /\ pc' = "classify"
    /\ UNCHANGED <<input, tmpExists, tmpCreated, files, idx, used, providedKeys,
                   risky, written, example, thrown, exitCode>>

\* Lines 201-269.
Classify ==
    /\ pc = "classify"
    /\ risky' = classify(used, Range(missing))
    /\ pc' = "report"
    /\ UNCHANGED <<input, tmpExists, tmpCreated, files, idx, used, providedKeys,
                   missing, unused, written, example, thrown, exitCode>>

\* Lines 271-376: the report object (which sorts missing and unused in
\* place) and the three writes, the first failing one throwing.
WriteReports ==
    /\ pc = "report"
    /\ missing' = sort(missing)
    /\ unused' = sort(unused)
    /\ written' = IF input.writeFail = 0
                  THEN Range(Artifacts)
                  ELSE Range(SubSeq(Artifacts, 1, input.writeFail - 1))
    /\ example' = IF input.writeFail \in {0, 3}
                  THEN exampleText(mapKeys(used))
                  ELSE <<>>
    /\ thrown' = (input.writeFail # 0)
    /\ pc' = "finally"
    /\ UNCHANGED <<input, tmpExists, tmpCreated, files, idx, used, providedKeys,
                   risky, exitCode>>

\* Lines 103-107, 114 and 377-379: cleanup().
Finally ==
    /\ pc = "finally"
    /\ tmpExists' = FALSE
    /\ pc' = "settle"
    /\ UNCHANGED <<input, tmpCreated, files, idx, used, providedKeys, missing,
                   unused, risky, written, example, thrown, exitCode>>

\* Lines 382-385: the rejection handler, or the normal end of the process.
Exit ==
    /\ pc = "settle"
    /\ exitCode' = IF thrown THEN 1 ELSE 0
    /\ pc' = "exited"
    /\ UNCHANGED <<input, tmpExists, tmpCreated, files, idx, used, providedKeys,
                   missing, unused, risky, written, example, thrown>>

\* A second invocation on the same tree, with the generated
\* .env.example.generated (line 320) as the env list (line 120).
RunAgainWithExample ==
    /\ pc = "exited"
    /\ exitCode = 0
    /\ ~input.fromTemplate
    /\ input' = [input EXCEPT !.envArg = TRUE, !.envText = example,
                              !.envReadable = TRUE, !.fromTemplate = TRUE]
    /\ pc' = "start"
    /\ tmpExists' = FALSE
    /\ tmpCreated' = FALSE
    /\ files' = <<>>
    /\ idx' = 1
    /\ used' = <<>>
    /\ providedKeys' = <<>>
    /\ missing' = <<>>
    /\ unused' = <<>>
    /\ risky' = <<>>
    /\ written' = {}
    /\ example' = <<>>
    /\ thrown' = FALSE
    /\ exitCode' = -1

Next ==
    \/ Usage
    \/ TargetNotFound
    \/ prepareTargetDir
    \/ prepareTargetZip
    \/ prepareTargetZipThrows
    \/ Glob
    \/ ScanFile
    \/ NoEnvFile
    \/ ReadEnvFile
    \/ ReadEnvFileThrows
    \/ Reconcile
    \/ Classify
    \/ WriteReports
    \/ Finally
    \/ Exit
    \/ RunAgainWithExample

Spec == Init /\ [][Next]_vars
SpecRisk == InitRisk /\ [][Next]_vars
SpecScan == InitScan /\ [][Next]_vars
SpecEnv == InitEnv /\ [][Next]_vars

(***************************************************************************)
(* Properties.                                                             *)
(***************************************************************************)
\* main() got through the writes of lines 287-373 (or the first failing one).
Reported ==
    /\ pc \in {"finally", "settle", "exited"}
    /\ input.target \in {"dir", "zip"}
    /\ input.target = "zip" => input.zipOk
    /\ input.envArg => input.envReadable

Reconciled == pc \in {"classify", "report"} \/ Reported
Classified == pc = "report" \/ Reported

UsedKeySet == Range(mapKeys(used))
NoDuplicates(a) == \A i, j \in DOMAIN a : a[i] = a[j] => i = j
FindingsOf(type, key) ==
    SelectSeq(risky, LAMBDA r : r.type = type /\ r.key = key)

\* C1: once reconciliation has run, with U the keys of the UsageIndex and D
\* the parsed env list: if D is non-empty the missing list is exactly U \ D
\* and the unused list exactly D \ U; if D is empty both lists are empty.
Reconciliation ==
    Reconciled =>
        LET U == UsedKeySet
            D == Range(providedKeys)
        IN  /\ NoDuplicates(missing) /\ NoDuplicates(unused)
            /\ IF D # {}
               THEN Range(missing) = U \ D /\ Range(unused) = D \ U
               ELSE missing = <<>> /\ unused = <<>>

ReconciliationWitness ==
    /\ Reported
    /\ missing # <<>>
    /\ unused # <<>>
    /\ UsedKeySet \cap Range(providedKeys) # {}

\* C2: no finding of the risky list has a key that is in the missing list.
Suppression ==
    \A i \in DOMAIN risky : risky[i].key \notin Range(missing)

SuppressionWitness ==
    /\ Classified
    /\ risky # <<>>
    /\ \E i \in DOMAIN used :
        /\ used[i].key \in Range(missing)
        /\ looksSensitiveName(used[i].key)
        /\ \E j \in DOMAIN used[i].locs :
              isLikelyClientExposedPath(used[i].locs[j].file)

\* The "potentially browser-bundled" location as the specification words it:
\* under app/ or pages/ (optionally under src/), not under that directory's
\* api/ subdirectory, and no route-file marker in the path.
S_pagesApi == <<"p", "a", "g", "e", "s", "/", "a", "p", "i", "/">>
S_srcPagesApi == <<"s", "r", "c", "/", "p", "a", "g", "e", "s", "/", "a", "p", "i", "/">>

ExposedAsSpecified(relFile) ==
    LET f == replaceAll(relFile, "\\", "/")
    IN  /\ \/ startsWith(f, S_app)
           \/ startsWith(f, S_pages)
           \/ startsWith(f, S_srcApp)
           \/ startsWith(f, S_srcPages)
        /\ ~startsWith(f, S_appApi)
        /\ ~startsWith(f, S_srcAppApi)
        /\ ~startsWith(f, S_pagesApi)
        /\ ~startsWith(f, S_srcPagesApi)
        /\ ~includes(f, S_routeTs)
        /\ ~includes(f, S_routeJs)

\* C3: for a key that is not missing, the sensitive-name-in-exposed-path
\* finding is present exactly when the name contains a sensitive keyword and
\* some occurrence lies in an exposed location (api/ subdirectories of app/
\* and of pages/ both excluded), and it cites the first such occurrence.
ExposedRule ==
    Classified =>
        \A i \in DOMAIN used :
            LET key == used[i].key
                locs == used[i].locs
                hits == {j \in DOMAIN locs : ExposedAsSpecified(locs[j].file)}
                fs == FindingsOf(TypeExposed, key)
            IN  key \notin Range(missing) =>
                    IF looksSensitiveName(key) /\ hits # {}
                    THEN LET first == CHOOSE j \in hits : \A h \in hits : j <= h
                         IN  /\ Len(fs) = 1
                             /\ fs[1].file = locs[first].file
                             /\ fs[1].line = locs[first].line
                    ELSE fs = <<>>

\* C4: when the process has exited after the temporary extraction directory
\* was created, the directory has been removed.
TempDirRemoved ==
    (pc = "exited" /\ tmpCreated) => ~tmpExists

\* C5: for a key that is not missing, the non-public-secret-in-client-file
\* finding is present exactly when some occurrence is in a client file and
\* the name lacks the NEXT_PUBLIC_ prefix; there is exactly one, and it cites
\* the first occurrence whose isClient is true.
ClientRule ==
    Classified =>
        \A i \in DOMAIN used :
            LET key == used[i].key
                locs == used[i].locs
                hits == {j \in DOMAIN locs : locs[j].isClient}
                fs == FindingsOf(TypeClient, key)
            IN  key \notin Range(missing) =>
                    IF hits # {} /\ ~startsWith(key, S_nextPublic)
                    THEN LET first == CHOOSE j \in hits : \A h \in hits : j <= h
                         IN  /\ Len(fs) = 1
                             /\ fs[1].file = locs[first].file
                             /\ fs[1].line = locs[first].line
                    ELSE fs = <<>>

ClientRuleWitness ==
    /\ Classified
    /\ \E i \in DOMAIN used :
        /\ FindingsOf(TypeClient, used[i].key) # <<>>
        /\ ~used[i].locs[1].isClient
        /\ ~looksSensitiveName(used[i].key)

\* C6: every key of the UsageIndex has at least one occurrence; for a key
\* that is not missing, the public-name-only-in-server-routes finding is
\* present exactly when the name starts with NEXT_PUBLIC_ and every
\* occurrence is in a server-route file, and it cites the first occurrence.
ServerOnlyRule ==
    /\ \A i \in DOMAIN used : Len(used[i].locs) >= 1
    /\ Classified =>
        \A i \in DOMAIN used :
            LET key == used[i].key
                locs == used[i].locs
                fs == FindingsOf(TypeServerOnly, key)
            IN  key \notin Range(missing) =>
                    IF /\ startsWith(key, S_nextPublic)
                       /\ \A j \in DOMAIN locs : locs[j].isServerFile
                    THEN /\ Len(fs) = 1
                         /\ fs[1].file = locs[1].file
                         /\ fs[1].line = locs[1].line
                    ELSE fs = <<>>

ServerOnlyRuleWitness ==
    /\ Classified
    /\ \E i \in DOMAIN used : FindingsOf(TypeServerOnly, used[i].key) # <<>>
    /\ \E i \in DOMAIN used :
        /\ startsWith(used[i].key, S_nextPublic)
        /\ used[i].key \notin Range(missing)
        /\ \E j \in DOMAIN used[i].locs : used[i].locs[j].isServerFile
        /\ FindingsOf(TypeServerOnly, used[i].key) = <<>>

\* C7: in a second run on the same tree whose env list is the generated
\* declarations-template of the first run, the missing list is empty.
RoundTrip ==
    (input.fromTemplate /\ Reconciled) => missing = <<>>

RoundTripWitness ==
    /\ input.fromTemplate
    /\ Reported
    /\ Len(used) >= 2
    /\ Range(providedKeys) = UsedKeySet

\* The UsageIndex of a tree in which every file is read.
RECURSIVE scanAllRead(_, _)
scanAllRead(m, fs) ==
    IF fs = <<>> THEN m
    ELSE scanAllRead(scanText(m, Head(fs).path, Head(fs).text), Tail(fs))

Readable(fs) == SelectSeq(fs, LAMBDA f : f.readable)

\* C8: a file whose read fails contributes no occurrence, the occurrences of
\* the other files are recorded as they would be without it, and the run
\* goes on to write its reports and exit with status 0.
ReadFailureTolerated ==
    /\ used = scanAllRead(<<>>, Readable(SubSeq(files, 1, idx - 1)))
    /\ \A i \in DOMAIN used : \A j \in DOMAIN used[i].locs :
          \A k \in DOMAIN files :
              files[k].path = used[i].locs[j].file => files[k].readable
    /\ (Reported /\ input.writeFail = 0) =>
          /\ written = Range(Artifacts)
          /\ ~thrown
          /\ pc = "exited" => exitCode = 0

ReadFailureToleratedWitness ==
    /\ Reported
    /\ exitCode = 0
    /\ used # <<>>
    /\ \E k \in DOMAIN files :
          /\ ~files[k].readable
          /\ matchAll(files[k].text, "dot") # <<>>
          /\ \E l \in DOMAIN files :
                l > k /\ files[l].readable /\ matchAll(files[l].text, "dot") # <<>>

\* The occurrences of `key` matched by one pattern in one file, top to bottom.
RECURSIVE Ascending(_)
Ascending(S) ==
    IF S = {} THEN <<>>
    ELSE LET lo == CHOOSE x \in S : \A y \in S : x <= y
         IN  <<lo>> \o Ascending(S \ {lo})

OccurrencesOf(file, kind, key) ==
    LET ps == Ascending({p \in DOMAIN file.text :
                            file.text[p].t = kind /\ file.text[p].key = key})
    IN  [n \in DOMAIN ps |->
            [file |-> file.path,
             line |-> Cardinality({q \in 1..(ps[n] - 1) : file.text[q] = NL}) + 1,
             isClient |-> isClientOf(file.text),
             isServerFile |-> isServerFileOf(file.path)]]

RECURSIVE DiscoveryOrderOf(_, _)
DiscoveryOrderOf(fs, key) ==
    IF fs = <<>> THEN <<>>
    ELSE OccurrencesOf(Head(fs), "dot", key)
         \o OccurrencesOf(Head(fs), "bracket", key)
         \o DiscoveryOrderOf(Tail(fs), key)

KeysIn(fs) ==
    UNION {{fs[i].text[p].key : p \in {q \in DOMAIN fs[i].text :
                                          fs[i].text[q].t \in {"dot", "bracket"}}} :
           i \in DOMAIN fs}

\* C9: the occurrences of every variable are in discovery order: file by
\* file in enumeration order and, within a file, the dot-access matches top
\* to bottom followed by the bracket-access matches top to bottom; every
\* match has its own entry, also two matches on one line.
DiscoveryOrder ==
    LET scanned == Readable(SubSeq(files, 1, idx - 1))
    IN  /\ UsedKeySet = KeysIn(scanned)
        /\ NoDuplicates(mapKeys(used))
        /\ \A i \in DOMAIN used :
              used[i].locs = DiscoveryOrderOf(scanned, used[i].key)

DiscoveryOrderWitness ==
    /\ pc = "exited"
    /\ \E i \in DOMAIN used :
        LET locs == used[i].locs
        IN  /\ \E j \in 1..(Len(locs) - 1) : locs[j] = locs[j + 1]
            /\ \E j \in 1..(Len(locs) - 1) :
                  /\ locs[j].file = locs[j + 1].file
                  /\ locs[j].line > locs[j + 1].line
            /\ \E j \in 1..(Len(locs) - 1) : locs[j].file # locs[j + 1].file

\* C10: a path flagged as a server-route file is never an exposed path, so a
\* sensitive-name-in-exposed-path finding never cites a server-route file and
\* never shares its key with a public-name-only-in-server-routes finding.
ExposedExcludesServerRoutes ==
    /\ \A k \in DOMAIN input.files :
          isServerFileOf(input.files[k].path) =>
              ~isLikelyClientExposedPath(input.files[k].path)
    /\ \A i \in DOMAIN risky :
          risky[i].type = TypeExposed =>
              /\ ~isServerFileOf(risky[i].file)
              /\ FindingsOf(TypeServerOnly, risky[i].key) = <<>>

ExposedExcludesServerRoutesWitness ==
    /\ Classified
    /\ \E i \in DOMAIN risky : risky[i].type = TypeServerOnly
    /\ \E i \in DOMAIN used :
        /\ startsWith(used[i].key, S_nextPublic)
        /\ FindingsOf(TypeExposed, used[i].key) # <<>>
        /\ \E j \in DOMAIN used[i].locs : used[i].locs[j].isServerFile
====
